---- MODULE Spec2Model ----
(***************************************************************************)
(* The generic resource reconciler of the Teleport Kubernetes operator:    *)
(* TeleportResourceReconciler.Upsert / Delete, driven by the base control  *)
(* loop, against a declarative store (Kubernetes objects) and the Teleport *)
(* backend (remote resources keyed by name).                               *)
(***************************************************************************)
EXTENDS Naturals, Sequences, FiniteSets, TLC

VARIABLES k8s, remote, pass, queued

vars == <<k8s, remote, pass, queued>>

(* ------------------------------ bounds --------------------------------- *)

\* number of distinct spec payloads a user or another system can write
MaxSpec == 2
\* cap on the generation counter of a declarative object (spec edits)
MaxGeneration == 2

(* ----------------------------- constants ------------------------------- *)

\* declarative objects; "a2" is an object of a second cluster naming the same
\* remote resource as "a1"
Objects == {"a1", "b1", "a2"}
Names == {"conn-a", "conn-b"}

OneNameForAll(d) == "conn-a"

NameOf(d) == IF d = "b1" THEN "conn-b" ELSE "conn-a"

SpecValues == 1..MaxSpec

OriginKubernetes == "kubernetes"
\* origin labels a resource can carry: the engine's, another system's, none
Origins == {OriginKubernetes, "dynamic", ""}

NoErr == "nil"
NotFoundErr == "NotFound"
UnavailableErr == "Unavailable"
OwnershipErr == "AlreadyExists"
StatusErr == "StatusUpdateFailed"
ConversionErr == "ConversionFailed"
UpdateErr == "UpdateFailed"

NoResource == [found |-> FALSE]
NoObject == [present |-> FALSE]

Outcomes == {"ok", "fail"}

IsNotFound(err) == err = NotFoundErr

(* --------------------------- status conditions ------------------------- *)

OwnershipType == "TeleportResourceOwned"
ReconciliationType == "SuccessfullyReconciled"

\* a status condition; its makers are given the backend's resource or the
\* error of a call and never the object, so the generation it is said to have
\* observed stays at the zero value
Condition(type, status, reason, message) ==
    [type |-> type, status |-> status, reason |-> reason, message |-> message,
     observedGeneration |-> 0]

AppendCondition(conds, c) == Append(conds, c)

ReplaceAllConditions(conds, c) == <<c>>

\* replace the condition of the same type, or append it
SetStatusCondition(conds, c) ==
    IF \E i \in DOMAIN conds : conds[i].type = c.type
    THEN [i \in DOMAIN conds |-> IF conds[i].type = c.type THEN c ELSE conds[i]]
    ELSE Append(conds, c)

FindCondition(conds, type) ==
    IF \E i \in DOMAIN conds : conds[i].type = type
    THEN conds[CHOOSE i \in DOMAIN conds : conds[i].type = type]
    ELSE Condition(type, "Unknown", "", "")

checkOwnershipByPresence(existing) ==
    IF existing = NoResource
    THEN [cond |-> Condition(OwnershipType, "True", "new resource", ""),
          err |-> NoErr]
    ELSE [cond |-> Condition(OwnershipType, "True", "already owned", ""),
          err |-> NoErr]

\* the ownership verdict for the result of the fetch
checkOwnership(existing) ==
    IF existing = NoResource
    THEN [cond |-> Condition(OwnershipType, "True", "new resource", ""),
          err |-> NoErr]
    ELSE IF existing.origin = OriginKubernetes
    THEN [cond |-> Condition(OwnershipType, "True", "already owned", ""),
          err |-> NoErr]
    ELSE [cond |-> Condition(OwnershipType, "False", "origin conflict",
                             existing.origin),
          err |-> OwnershipErr]

getReconciliationConditionFromError(err) ==
    IF err = NoErr
    THEN Condition(ReconciliationType, "True", "success", "")
    ELSE Condition(ReconciliationType, "False", "failure", err)

(* ------------------------------ resources ------------------------------ *)

\* the conversion of a declarative object into the backend's resource
ToTeleport(name, obj) ==
    [found |-> TRUE, name |-> name, origin |-> "", spec |-> obj.spec]

SetOrigin(res, origin) == [res EXCEPT !.origin = origin]

Resources(n) ==
    {[found |-> TRUE, name |-> n, origin |-> o, spec |-> s] :
        o \in Origins, s \in SpecValues}

(* --------------------------- backend client ---------------------------- *)

\* each returns the backend's next state and the call's error

GetTeleportResource(store, name, out) ==
    IF out = "fail" THEN [res |-> NoResource, err |-> UnavailableErr]
    ELSE IF store[name] = NoResource THEN [res |-> NoResource, err |-> NotFoundErr]
    ELSE [res |-> store[name], err |-> NoErr]

\* the adapters bind create and update to the backend's upsert
UpsertConnector(store, res, out) ==
    IF out = "fail" THEN [store |-> store, err |-> UnavailableErr]
    ELSE [store |-> [store EXCEPT ![res.name] = res], err |-> NoErr]

CreateIfAbsent(store, res, out) ==
    IF out = "ok" /\ store[res.name] # NoResource
    THEN [store |-> store, err |-> "AlreadyExists"]
    ELSE UpsertConnector(store, res, out)

CreateTeleportResource(store, res, out) == UpsertConnector(store, res, out)

UpdateKeepsContent(store, res, out) ==
    IF out = "ok" /\ store[res.name] # NoResource
    THEN [store |-> [store EXCEPT ![res.name].origin = res.origin], err |-> NoErr]
    ELSE UpsertConnector(store, res, out)

UpdateTeleportResource(store, res, out) == UpsertConnector(store, res, out)

DeleteTeleportResource(store, name, out) ==
    IF out = "fail" THEN [store |-> store, err |-> UnavailableErr]
    ELSE IF store[name] = NoResource THEN [store |-> store, err |-> NotFoundErr]
    ELSE [store |-> [store EXCEPT ![name] = NoResource], err |-> NoErr]

(* -------------------------- declarative store -------------------------- *)

NewObject(s) ==
    [present |-> TRUE, spec |-> s, generation |-> 1, deletion |-> FALSE,
     finalizer |-> FALSE, conditions |-> <<>>]

StatusUpdateBumpsGeneration(store, d, conds, fresh, out) ==
    IF out = "ok" /\ fresh /\ store[d] # NoObject
    THEN [store |-> [store EXCEPT ![d].conditions = conds, ![d].generation = @ + 1],
          err |-> NoErr]
    ELSE [store |-> store, err |-> "StatusUpdateFailed"]

\* a write of the status subresource; it fails on a stale or vanished object
StatusUpdate(store, d, conds, fresh, out) ==
    IF out = "ok" /\ fresh /\ store[d] # NoObject
    THEN [store |-> [store EXCEPT ![d].conditions = conds], err |-> NoErr]
    ELSE [store |-> store, err |-> StatusErr]

\* the status write whose error is logged and dropped
silentUpdateStatus(store, d, conds, fresh, out) ==
    StatusUpdate(store, d, conds, fresh, out).store

\* a write of the object's metadata (the finalizer marker)
FinalizerUpdate(store, d, value, fresh, out) ==
    IF out = "ok" /\ fresh /\ store[d] # NoObject
    THEN [store |-> [store EXCEPT ![d].finalizer = value], err |-> NoErr]
    ELSE [store |-> store, err |-> UpdateErr]

(* ------------------------------ the pass ------------------------------- *)

\* what a call found under the name when it took effect
Saw(res) ==
    [found |-> res # NoResource,
     origin |-> IF res = NoResource THEN "" ELSE res.origin]

\* a call to the declarative store finds no backend resource
NoSaw == Saw(NoResource)

\* a call of the pass: the operation, its error, what it found
Call(op, err, saw) == [op |-> op, err |-> err, saw |-> saw]

IdlePass ==
    [pc |-> "idle", obj |-> NoObject, exists |-> FALSE, fresh |-> TRUE,
     calls |-> <<>>, err |-> NoErr, path |-> "none"]

GetAlwaysAborts(err) == TRUE

GetNeverAborts(err) == FALSE

\* Upsert: a fetch error other than NotFound aborts the pass
GetAborts(err) == err # NoErr /\ ~IsNotFound(err)

OwnershipNeverStops(err) == FALSE

\* Upsert: an ownership error stops the pass before the mutating call
OwnershipStops(err) == err # NoErr

SkipsMutation == "persist"

\* Upsert: past a granted ownership check comes the mutating call
AfterOwnership == "mutate"

NeverCreate(exists) == FALSE

AlwaysCreate(exists) == TRUE

\* Upsert: create when the fetch said NotFound, else update
UseCreate(exists) == ~exists

\* Upsert: the resource sent to the backend carries the engine's origin
StampOrigin(res) == SetOrigin(res, OriginKubernetes)

AlwaysNoError(mutErr, statusErr) == NoErr

StatusErrorFirst(mutErr, statusErr) == IF statusErr # NoErr THEN statusErr ELSE mutErr

\* Upsert: the error it returns, from the mutating call's and the final
\* status write's
UpsertResult(mutErr, statusErr) == IF mutErr # NoErr THEN mutErr ELSE statusErr

DeleteSwallowsError(err) == NoErr

\* Delete: the error it returns, from the backend's delete
DeleteResult(err) == err

\* the pass returns err to the control loop: an error is re-delivered
\* (pending: an event arrived for the object while the pass ran)
Return(d, p, err, pending) ==
    /\ pass' = [pass EXCEPT ![d] =
                    [IdlePass EXCEPT !.calls = p.calls, !.path = p.path, !.err = err]]
    /\ queued' = [queued EXCEPT ![d] = pending \/ err # NoErr]

\* the base loop after the upsert path: on success the finalizer is ensured
DoAfterUpsert(d, p, store, err, O) ==
    IF err # NoErr
    THEN k8s' = store /\ Return(d, p, err, queued[d])
    ELSE IF store[d] # NoObject /\ store[d].finalizer
    THEN k8s' = store /\ Return(d, p, NoErr, queued[d])
    ELSE \E out \in O :
            LET w == FinalizerUpdate(store, d, TRUE, p.fresh, out)
            IN k8s' = w.store /\ Return(d, p, w.err, queued[d])

\* the base loop finds no object under the name: nothing to do
DoNotFound(d) ==
    /\ pass[d].pc = "idle" /\ queued[d]
    /\ k8s[d] = NoObject
    /\ Return(d, [IdlePass EXCEPT !.path = "absent"], NoErr, FALSE)
    /\ UNCHANGED <<k8s, remote>>

IgnoresFinalizer(obj) == TRUE

\* the base loop: an object marked for deletion needs the delete path only
\* while it holds the finalizer
HoldsFinalizer(obj) == obj.finalizer

\* the base loop on an object marked for deletion whose finalizer is gone
DoDeletedNoFinalizer(d) ==
    /\ pass[d].pc = "idle" /\ queued[d]
    /\ k8s[d] # NoObject /\ k8s[d].deletion /\ ~HoldsFinalizer(k8s[d])
    /\ Return(d, [IdlePass EXCEPT !.path = "noop"], NoErr, FALSE)
    /\ UNCHANGED <<k8s, remote>>

\* the base loop on an object marked for deletion that holds the finalizer:
\* the delete path, then the finalizer is removed if it succeeded
DoDelete(d, O) ==
    /\ pass[d].pc = "idle" /\ queued[d]
    /\ k8s[d] # NoObject /\ k8s[d].deletion /\ HoldsFinalizer(k8s[d])
    /\ \E out \in O :
        LET del == DeleteTeleportResource(remote, NameOf(d), out)
            err == DeleteResult(del.err)
            p == [IdlePass EXCEPT !.path = "delete",
                    !.calls = <<Call("delete", del.err, Saw(remote[NameOf(d)]))>>]
        IN /\ remote' = del.store
           /\ IF err # NoErr
              THEN k8s' = k8s /\ Return(d, p, err, FALSE)
              ELSE \E out2 \in O :
                     LET w == FinalizerUpdate(k8s, d, FALSE, TRUE, out2)
                     IN /\ k8s' = w.store
                        /\ Return(d, [p EXCEPT !.calls =
                                        Append(p.calls, Call("unfinalize", w.err, NoSaw))],
                                  w.err, FALSE)

\* Upsert handed an object that is not of the reconciler's kind: it returns
\* the conversion error at once
UpsertNotConverted(d) ==
    /\ pass[d].pc = "idle" /\ queued[d]
    /\ k8s[d] # NoObject /\ ~k8s[d].deletion
    /\ Return(d, [IdlePass EXCEPT !.path = "upsert"], ConversionErr, FALSE)
    /\ UNCHANGED <<k8s, remote>>

\* Upsert up to the ownership check
UpsertGet(d, O) ==
    /\ pass[d].pc = "idle" /\ queued[d]
    /\ k8s[d] # NoObject /\ ~k8s[d].deletion
    /\ \E out \in O :
        LET teleportResource == ToTeleport(NameOf(d), k8s[d])
            got == GetTeleportResource(remote, teleportResource.name, out)
            p0 == [IdlePass EXCEPT !.path = "upsert", !.obj = k8s[d],
                                   !.calls = <<Call("get", got.err, Saw(got.res))>>]
        IN IF GetAborts(got.err)
           THEN k8s' = k8s /\ Return(d, p0, got.err, FALSE)
           ELSE LET own == checkOwnership(got.res)
                    conds == SetStatusCondition(k8s[d].conditions, own.cond)
                    p1 == [p0 EXCEPT !.exists = ~IsNotFound(got.err),
                                     !.obj.conditions = conds]
                IN IF OwnershipStops(own.err)
                   THEN \E sout \in O :
                          /\ k8s' = silentUpdateStatus(k8s, d, conds, TRUE, sout)
                          /\ Return(d, [p1 EXCEPT !.calls =
                                          Append(p1.calls, Call("status",
                                            StatusUpdate(k8s, d, conds, TRUE, sout).err, NoSaw))],
                                    own.err, FALSE)
                   ELSE /\ k8s' = k8s
                        /\ pass' = [pass EXCEPT ![d] = [p1 EXCEPT !.pc = AfterOwnership]]
                        /\ queued' = [queued EXCEPT ![d] = FALSE]
    /\ UNCHANGED remote

\* Upsert: the mutating call
UpsertMutate(d, O) ==
    /\ pass[d].pc = "mutate"
    /\ \E out \in O :
        LET p == pass[d]
            res == StampOrigin(ToTeleport(NameOf(d), p.obj))
            create == UseCreate(p.exists)
            w == IF create THEN CreateTeleportResource(remote, res, out)
                 ELSE UpdateTeleportResource(remote, res, out)
            cond == getReconciliationConditionFromError(w.err)
        IN /\ remote' = w.store
           /\ pass' = [pass EXCEPT ![d] =
                [p EXCEPT !.pc = "persist", !.err = w.err,
                          !.obj.conditions = SetStatusCondition(p.obj.conditions, cond),
                          !.calls = Append(p.calls,
                                Call(IF create THEN "create" ELSE "update", w.err,
                                     Saw(remote[NameOf(d)])))]]
    /\ UNCHANGED <<k8s, queued>>

\* Upsert: the status write and the return, then the base loop's finalizer
UpsertPersist(d, O) ==
    /\ pass[d].pc = "persist"
    /\ \E sout \in O :
        LET p == pass[d]
            w == StatusUpdate(k8s, d, p.obj.conditions, p.fresh, sout)
            p1 == [p EXCEPT !.calls = Append(p.calls, Call("status", w.err, NoSaw))]
        IN DoAfterUpsert(d, p1, w.store, UpsertResult(p.err, w.err), O)
    /\ UNCHANGED remote

(* --------------------------- the environment --------------------------- *)

\* a write by the user makes the copy a running pass holds stale
Stale(d) == [pass EXCEPT ![d].fresh = (pass[d].pc = "idle")]

UserCreate(d) ==
    /\ k8s[d] = NoObject
    /\ \E s \in SpecValues : k8s' = [k8s EXCEPT ![d] = NewObject(s)]
    /\ pass' = Stale(d)
    /\ queued' = [queued EXCEPT ![d] = TRUE]
    /\ UNCHANGED remote

UserEdit(d) ==
    /\ k8s[d] # NoObject /\ k8s[d].generation < MaxGeneration
    /\ \E s \in SpecValues \ {k8s[d].spec} :
          k8s' = [k8s EXCEPT ![d].spec = s, ![d].generation = @ + 1]
    /\ pass' = Stale(d)
    /\ queued' = [queued EXCEPT ![d] = TRUE]
    /\ UNCHANGED remote

UserDelete(d) ==
    /\ k8s[d] # NoObject /\ ~k8s[d].deletion
    /\ k8s' = [k8s EXCEPT ![d].deletion = TRUE]
    /\ pass' = Stale(d)
    /\ queued' = [queued EXCEPT ![d] = TRUE]
    /\ UNCHANGED remote

\* the store removes an object marked for deletion once no finalizer holds it
StoreRemove(d) ==
    /\ k8s[d] # NoObject /\ k8s[d].deletion /\ ~k8s[d].finalizer
    /\ k8s' = [k8s EXCEPT ![d] = NoObject]
    /\ pass' = Stale(d)
    /\ queued' = [queued EXCEPT ![d] = TRUE]
    /\ UNCHANGED remote

\* at-least-once delivery: the same state is delivered again
Redeliver(d) ==
    /\ ~queued[d]
    /\ queued' = [queued EXCEPT ![d] = TRUE]
    /\ UNCHANGED <<k8s, remote, pass>>

\* another system writes the resource
ExternalWrite(n) ==
    /\ \E r \in Resources(n) : remote' = [remote EXCEPT ![n] = r]
    /\ UNCHANGED <<k8s, pass, queued>>

ExternalDelete(n) ==
    /\ remote[n] # NoResource
    /\ remote' = [remote EXCEPT ![n] = NoResource]
    /\ UNCHANGED <<k8s, pass, queued>>

(* --------------------------- specifications ---------------------------- *)

InitFor(D) ==
    /\ k8s = [d \in Objects |-> NoObject]
    /\ remote \in [Names -> {NoResource} \cup UNION {Resources(n) : n \in Names}]
    /\ \A n \in Names :
         /\ remote[n] # NoResource => remote[n].name = n
         /\ n \notin {NameOf(d) : d \in D} => remote[n] = NoResource
    /\ pass = [d \in Objects |-> IdlePass]
    /\ queued = [d \in Objects |-> FALSE]

\* the passes of the upsert path, with the calls' outcomes drawn from O
EngineUpsert(d, O) ==
    \/ DoNotFound(d)
    \/ UpsertGet(d, O)
    \/ UpsertMutate(d, O)
    \/ UpsertPersist(d, O)

\* the passes on an object marked for deletion
EngineDelete(d, O) ==
    \/ DoDeletedNoFinalizer(d)
    \/ DoDelete(d, O)

Engine(d, O) == EngineUpsert(d, O) \/ EngineDelete(d, O)

User(d) ==
    \/ UserCreate(d)
    \/ UserEdit(d)
    \/ UserDelete(d)
    \/ StoreRemove(d)

External(n) ==
    \/ ExternalWrite(n)
    \/ ExternalDelete(n)

SpecObjects == {"a1"}

Init == InitFor(SpecObjects)

Next ==
    \/ \E d \in SpecObjects : Engine(d, Outcomes)
    \/ \E d \in SpecObjects : User(d)
    \/ \E d \in SpecObjects : Redeliver(d)
    \/ \E d \in SpecObjects : External(NameOf(d))

Spec == Init /\ [][Next]_vars

\* no failing call and no other writer of the backend: the engine and the
\* users of the declarative store alone
NextCalm ==
    \/ \E d \in SpecObjects : Engine(d, {"ok"})
    \/ \E d \in SpecObjects : User(d)
    \/ \E d \in SpecObjects : Redeliver(d)

\* the control loop runs every queued pass to its end, and the store removes
\* an object that is marked for deletion and holds no finalizer
Fairness ==
    \A d \in SpecObjects :
        /\ WF_vars(Engine(d, {"ok"}))
        /\ WF_vars(StoreRemove(d))

LiveSpec == Init /\ [][NextCalm]_vars /\ Fairness

\* objects that are created once and then left alone, delivered again and
\* again, with no failing call and no other writer
QuietObjects == {"a1", "b1"}

InitQuiet == InitFor(QuietObjects)

NextQuiet ==
    \/ \E d \in QuietObjects : EngineUpsert(d, {"ok"})
    \/ \E d \in QuietObjects : UserCreate(d)
    \/ \E d \in QuietObjects : Redeliver(d)

SpecQuiet == InitQuiet /\ [][NextQuiet]_vars

\* two engines, each with an object of its own that bears the same name, and
\* a backend that holds nothing yet; no failing call
RaceObjects == {"a1", "a2"}

InitRace ==
    /\ InitFor(RaceObjects)
    /\ \A n \in Names : remote[n] = NoResource

NextRace ==
    \/ \E d \in RaceObjects : EngineUpsert(d, {"ok"})
    \/ \E d \in RaceObjects : UserCreate(d)
    \/ \E d \in RaceObjects : Redeliver(d)

SpecRace == InitRace /\ [][NextRace]_vars

\* an object that is created and edited and never deleted, a backend and a
\* store whose calls may fail, no other writer; the control loop runs every
\* queued pass
NextFlaky ==
    \/ \E d \in SpecObjects : EngineUpsert(d, Outcomes)
    \/ \E d \in SpecObjects : UserCreate(d)
    \/ \E d \in SpecObjects : UserEdit(d)
    \/ \E d \in SpecObjects : Redeliver(d)

FairnessFlaky == \A d \in SpecObjects : WF_vars(EngineUpsert(d, Outcomes))

SpecFlaky == Init /\ [][NextFlaky]_vars /\ FairnessFlaky

\* the engine, whose calls may fail, and the users of the declarative store;
\* no other writer of the backend
NextAlone ==
    \/ \E d \in SpecObjects : Engine(d, Outcomes)
    \/ \E d \in SpecObjects : User(d)
    \/ \E d \in SpecObjects : Redeliver(d)

SpecAlone == Init /\ [][NextAlone]_vars

\* the engine and the users of the store, no failing call and no other
\* writer, with passes that are handed an object of another kind
NextKind ==
    \/ NextCalm
    \/ \E d \in SpecObjects : UpsertNotConverted(d)

SpecKind == Init /\ [][NextKind]_vars

\* two objects of different names, created and deleted by their users, with
\* no failing call and no other writer; their passes interleave
NextNames ==
    \/ \E d \in QuietObjects : Engine(d, {"ok"})
    \/ \E d \in QuietObjects : UserCreate(d)
    \/ \E d \in QuietObjects : UserDelete(d)
    \/ \E d \in QuietObjects : StoreRemove(d)

InitNames ==
    /\ InitFor(QuietObjects)
    /\ \A n \in Names : remote[n] = NoResource

SpecNames == InitNames /\ [][NextNames]_vars

(* ------------------------- reading a pass's log ------------------------ *)

Mutating == {"create", "update"}

CallsOf(p, ops) == {i \in DOMAIN p.calls : p.calls[i].op \in ops}

Foreign(saw) == saw.found /\ saw.origin # OriginKubernetes

Owned(saw) == saw.found /\ saw.origin = OriginKubernetes

\* the pass fetched the resource and found it under a foreign or absent origin
GotForeign(p) ==
    /\ p.calls # <<>> /\ p.calls[1].op = "get"
    /\ p.calls[1].err = NoErr /\ Foreign(p.calls[1].saw)

\* the pass fetched the resource and found nothing, or found it engine-owned
GotClaimable(p) ==
    /\ p.calls # <<>> /\ p.calls[1].op = "get"
    /\ \/ p.calls[1].err = NotFoundErr /\ ~p.calls[1].saw.found
       \/ p.calls[1].err = NoErr /\ Owned(p.calls[1].saw)

\* a step of the pass of d
PassStep(d) == pass'[d] # pass[d]

(* -------------------------------- C1 ----------------------------------- *)

\* C1: ownership invariant. In every pass, running or finished, a create or
\* update call was made only if that pass's get returned NotFound or a
\* resource carrying the engine's own origin.
C1_OwnershipInvariant ==
    \A d \in Objects :
        CallsOf(pass[d], Mutating) # {} => GotClaimable(pass[d])

\* a pass that found the resource engine-owned and updated it
C1_Witness ==
    \E d \in Objects :
        /\ pass[d].calls # <<>>
        /\ Owned(pass[d].calls[1].saw)
        /\ \E i \in CallsOf(pass[d], {"update"}) : pass[d].calls[i].err = NoErr

(* -------------------------------- C2 ----------------------------------- *)

\* C2: ownership gate. A pass whose get found the resource under a foreign or
\* absent origin stops at once: its calls are the get and one status write,
\* it leaves the backend as it was, it returns the ownership error, and a
\* status write that succeeds leaves the stored ownership condition false.
C2_OwnershipGate ==
    [][\A d \in Objects :
        (PassStep(d) /\ GotForeign(pass'[d])) =>
            /\ pass'[d].pc = "idle"
            /\ Len(pass'[d].calls) = 2
            /\ pass'[d].calls[2].op = "status"
            /\ CallsOf(pass'[d], Mutating \cup {"delete"}) = {}
            /\ remote' = remote
            /\ pass'[d].err = OwnershipErr
            /\ pass'[d].calls[2].err = NoErr =>
                 LET c == FindCondition(k8s'[d].conditions, OwnershipType)
                 IN c.status = "False" /\ c.reason = "origin conflict"]_vars

\* a denied pass whose status write went through
C2_Witness ==
    \E d \in Objects :
        /\ GotForeign(pass[d])
        /\ pass[d].pc = "idle"
        /\ pass[d].calls[2].err = NoErr
        /\ k8s[d] # NoObject
        /\ FindCondition(k8s[d].conditions, OwnershipType).status = "False"

(* -------------------------------- C3 ----------------------------------- *)

\* C3: the delete path respects ownership. No pass calls delete while the
\* resource under the name carries a foreign or absent origin.
C3_DeleteRespectsOwnership ==
    \A d \in Objects :
        \A i \in CallsOf(pass[d], {"delete"}) : ~Foreign(pass[d].calls[i].saw)

(* -------------------------------- C4 ----------------------------------- *)

DeleteAccepted(p) ==
    /\ p.path = "delete" /\ p.calls # <<>> /\ p.calls[1].op = "delete"
    /\ p.calls[1].err \in {NoErr, NotFoundErr}

\* C4: finalizer safety. An object leaves the store only when it is marked for
\* deletion and holds no finalizer; the finalizer is removed only by a pass
\* whose delete call returned success or NotFound; a delete pass whose delete
\* call failed otherwise leaves the object, finalizer included, as it was.
C4_FinalizerSafety ==
    [][\A d \in Objects :
        /\ (k8s[d] # NoObject /\ k8s'[d] = NoObject) =>
              k8s[d].deletion /\ ~k8s[d].finalizer
        /\ (k8s[d] # NoObject /\ k8s[d].finalizer
              /\ k8s'[d] # NoObject /\ ~k8s'[d].finalizer) =>
              PassStep(d) /\ DeleteAccepted(pass'[d])
        /\ (PassStep(d) /\ pass'[d].path = "delete" /\ ~DeleteAccepted(pass'[d])) =>
              k8s'[d] = k8s[d] /\ pass'[d].err # NoErr]_vars

\* a delete pass removed the resource and then the finalizer
C4_Witness ==
    \E d \in Objects :
        /\ pass[d].path = "delete" /\ Len(pass[d].calls) = 2
        /\ pass[d].calls[1].err = NoErr /\ pass[d].calls[2].err = NoErr
        /\ k8s[d] # NoObject /\ k8s[d].deletion /\ ~k8s[d].finalizer

(* -------------------------------- C5 ----------------------------------- *)

\* C5: drift recovery. A delete pass whose delete call found the resource
\* already gone (NotFound) counts as a success: the pass goes on to remove the
\* finalizer and returns no error of the delete.
C5_DriftDeleteAccepted ==
    \A d \in Objects :
        (pass[d].path = "delete" /\ pass[d].calls # <<>>
            /\ pass[d].calls[1].err = NotFoundErr) =>
                /\ Len(pass[d].calls) = 2
                /\ pass[d].calls[2].op = "unfinalize"
                /\ pass[d].err # NotFoundErr

(* -------------------------------- C6 ----------------------------------- *)

\* the pass created or updated the resource successfully
MutatedOk(p) == \E i \in CallsOf(p, Mutating) : p.calls[i].err = NoErr

\* C6: no orphaned resources. An object whose last pass has finished and has
\* successfully created or updated the resource (whatever the outcome of its
\* status write; the write of the finalizer, if attempted, did not fail) is
\* not removed from the store while that engine-owned resource still exists.
C6_NoOrphans ==
    [][\A d \in Objects :
        (k8s[d] # NoObject /\ k8s'[d] = NoObject
            /\ pass[d].pc = "idle" /\ MutatedOk(pass[d])
            /\ pass[d].err # UpdateErr) =>
                ~Owned(Saw(remote[NameOf(d)]))]_vars

(* -------------------------------- C10 ---------------------------------- *)

Ops(p) == [i \in DOMAIN p.calls |-> p.calls[i].op]

\* the pass found nothing under the name, and its mutating call and its
\* status write both succeeded
FirstSyncOk(p) ==
    /\ Len(p.calls) = 3
    /\ p.calls[1].op = "get" /\ p.calls[1].err = NotFoundErr
    /\ p.calls[2].err = NoErr /\ p.calls[3].err = NoErr

\* C10: first sync. A pass whose get returned NotFound makes, as its mutating
\* call, a create that stores the declared spec under the engine's origin;
\* when the pass succeeds its calls are exactly get, create, status (one
\* create, no update), and the stored status holds ownership true with reason
\* "new resource" and reconciliation true.
C10_FirstSync ==
    [][\A d \in Objects :
        /\ (pass[d].pc = "mutate" /\ pass'[d].pc = "persist"
              /\ pass[d].calls[1].err = NotFoundErr
              /\ pass'[d].calls[2].err = NoErr) =>
              /\ pass'[d].calls[2].op = "create"
              /\ remote'[NameOf(d)] =
                    [found |-> TRUE, name |-> NameOf(d),
                     origin |-> OriginKubernetes, spec |-> pass[d].obj.spec]
        /\ (pass[d].pc = "persist" /\ pass'[d].pc = "idle"
              /\ FirstSyncOk(pass'[d])) =>
              /\ Ops(pass'[d]) = <<"get", "create", "status">>
              /\ Len(k8s'[d].conditions) = 2
              /\ FindCondition(k8s'[d].conditions, OwnershipType) =
                    Condition(OwnershipType, "True", "new resource", "")
              /\ FindCondition(k8s'[d].conditions, ReconciliationType).status
                    = "True"]_vars

\* a finished first sync: created, status stored, finalizer attached
C10_Witness ==
    \E d \in Objects :
        /\ pass[d].pc = "idle" /\ FirstSyncOk(pass[d]) /\ pass[d].err = NoErr
        /\ Ops(pass[d]) = <<"get", "create", "status">>
        /\ k8s[d] # NoObject /\ k8s[d].finalizer
        /\ FindCondition(k8s[d].conditions, OwnershipType).reason = "new resource"
        /\ FindCondition(k8s[d].conditions, ReconciliationType).status = "True"
        /\ Owned(Saw(remote[NameOf(d)]))

(* -------------------------------- C7 ----------------------------------- *)

\* the resource the engine writes for the object
Declared(d) == StampOrigin(ToTeleport(NameOf(d), k8s[d]))

\* a pass has already reconciled the object (under SpecQuiet the finalizer is
\* attached by the first pass that succeeds, and nothing removes it)
Reconciled(d) == k8s[d] # NoObject /\ k8s[d].finalizer

Statuses(conds) == [i \in DOMAIN conds |-> <<conds[i].type, conds[i].status>>]

\* once a pass has succeeded, the one resource under the name is the
\* declared one
OneResource ==
    \A d \in Objects : Reconciled(d) => remote[NameOf(d)] = Declared(d)

\* the pass that follows a pass which created or updated the resource finds
\* it engine-owned: no second create
NoSecondCreate ==
    \A d \in Objects :
        (pass[d].pc = "idle" /\ MutatedOk(pass[d]) /\ PassStep(d)) =>
            /\ pass'[d].calls[1].op = "get" /\ pass'[d].calls[1].err = NoErr
            /\ Owned(pass'[d].calls[1].saw)
            /\ pass'[d].exists

\* a pass on a reconciled object takes the update path and leaves the backend
\* as it was
RedeliveryKeepsRemote ==
    \A d \in Objects :
        (Reconciled(d) /\ pass[d].pc = "mutate" /\ pass'[d].pc = "persist") =>
            /\ pass'[d].calls[2].op = "update" /\ pass'[d].calls[2].err = NoErr
            /\ remote' = remote

RedeliveryEnds(d) ==
    Reconciled(d) /\ pass[d].pc = "persist" /\ pass'[d].pc = "idle"

\* C7 as stated: idempotent upsert. With no other writer and no failure, the
\* one resource equals the declared one, the pass after a create takes the
\* update path, and a pass on an object already reconciled leaves the backend
\* and the stored status conditions unchanged.
C7_IdempotentUpsert ==
    /\ []OneResource
    /\ [][NoSecondCreate]_vars
    /\ [][RedeliveryKeepsRemote]_vars
    /\ [][\A d \in Objects :
            RedeliveryEnds(d) => k8s'[d].conditions = k8s[d].conditions]_vars

\* C7 amended: as above, but of the stored conditions only the truth values
\* are unchanged by the pass: the ownership reason becomes "already owned",
\* and the conditions are unchanged altogether once it is.
C7_IdempotentUpsertAmended ==
    /\ []OneResource
    /\ [][NoSecondCreate]_vars
    /\ [][RedeliveryKeepsRemote]_vars
    /\ [][\A d \in Objects :
            RedeliveryEnds(d) =>
              /\ pass'[d].err = NoErr
              /\ Statuses(k8s'[d].conditions) = Statuses(k8s[d].conditions)
              /\ FindCondition(k8s'[d].conditions, OwnershipType).reason
                    = "already owned"
              /\ FindCondition(k8s[d].conditions, OwnershipType).reason
                    = "already owned" =>
                        k8s'[d].conditions = k8s[d].conditions]_vars

\* the second pass on an object the first pass created: it updated, and the
\* ownership reason is now "already owned"
C7_Witness ==
    \E d \in Objects :
        /\ Reconciled(d) /\ pass[d].pc = "idle" /\ pass[d].err = NoErr
        /\ Ops(pass[d]) = <<"get", "update", "status">>
        /\ remote[NameOf(d)] = Declared(d)
        /\ FindCondition(k8s[d].conditions, OwnershipType).reason = "already owned"

(* -------------------------------- C8 ----------------------------------- *)

Live(d) == k8s[d] # NoObject /\ ~k8s[d].deletion

Gone(d) == k8s[d] = NoObject \/ k8s[d].deletion

\* the last engine call on the resource of the object was its own successful
\* create or update
EngineWrote(d) == pass[d].path = "upsert" /\ MutatedOk(pass[d])

\* while an object stays in the store unmarked and nothing exists under its
\* name, the engine eventually produces the resource under its own origin
EventuallyProduced(d) ==
    (Live(d) /\ remote[NameOf(d)] = NoResource) ~>
        \/ Gone(d)
        \/ /\ Owned(Saw(remote[NameOf(d)]))
           /\ remote[NameOf(d)].name = NameOf(d)

\* C8: creation then removal. The engine eventually produces the resource of
\* a newly created object, under its own origin; and once the object is then
\* deleted, the resource the engine wrote eventually is gone from the backend
\* (unless the object is created anew).
C8_CreationThenRemoval ==
    \A d \in Objects :
        /\ EventuallyProduced(d)
        /\ (Gone(d) /\ EngineWrote(d) /\ Owned(Saw(remote[NameOf(d)]))) ~>
              (remote[NameOf(d)] = NoResource \/ Live(d))

\* C8, for an object deleted while it holds the finalizer: the resource
\* eventually is gone from the backend.
C8_RemovalOnceFinalized ==
    \A d \in Objects :
        /\ EventuallyProduced(d)
        /\ (k8s[d] # NoObject /\ k8s[d].deletion /\ k8s[d].finalizer) ~>
              remote[NameOf(d)] = NoResource

(* -------------------------------- C9 ----------------------------------- *)

\* the last pass of the object succeeded and nothing has arrived since
Settled(d) ==
    /\ Live(d) /\ pass[d].pc = "idle" /\ ~queued[d]
    /\ pass[d].path = "upsert" /\ pass[d].err = NoErr

\* C9: update propagation. While an object stays in the store unmarked and the
\* resource under its name is engine-owned, the resource eventually equals the
\* conversion of the object's current spec; and whenever the engine has
\* settled, the resource is the conversion of the latest spec.
C9_UpdatePropagation ==
    /\ \A d \in Objects :
          (Live(d) /\ Owned(Saw(remote[NameOf(d)]))) ~>
              (Gone(d) \/ remote[NameOf(d)] = Declared(d))
    /\ [](\A d \in Objects : Settled(d) => remote[NameOf(d)] = Declared(d))

\* an edited object whose resource the engine updated to the edited spec
C9_Witness ==
    \E d \in Objects :
        /\ Settled(d) /\ k8s[d].generation > 1
        /\ Ops(pass[d]) = <<"get", "update", "status">>
        /\ remote[NameOf(d)] = Declared(d)

(* -------------------------------- C11 ---------------------------------- *)

\* an upsert pass that has returned
FinishedUpsert(p) == p.pc = "idle" /\ p.path = "upsert" /\ p.calls # <<>>

\* C11: every upsert pass that has returned, on whatever path, made a status
\* write before it returned; in particular a pass whose get failed with an
\* error other than NotFound, whose log would else hold the get alone.
C11_StatusOnEveryPath ==
    \A d \in Objects :
        FinishedUpsert(pass[d]) => CallsOf(pass[d], {"status"}) # {}

(* -------------------------------- C12 ---------------------------------- *)

\* the pass made its mutating call and the status write that followed failed
StatusWriteFailed(p) ==
    /\ FinishedUpsert(p) /\ Len(p.calls) = 3
    /\ p.calls[2].op \in Mutating
    /\ p.calls[3].op = "status" /\ p.calls[3].err = StatusErr

\* C12: status-write errors never propagate. A pass whose status write failed
\* returns the error of its create or update call: that call's error if it
\* failed, no error if it succeeded.
C12_StatusErrorsNeverPropagate ==
    \A d \in Objects :
        StatusWriteFailed(pass[d]) => pass[d].err = pass[d].calls[2].err

(* -------------------------------- C13 ---------------------------------- *)

\* C13: a pass whose create or update failed and whose status write failed
\* too returns the error of the create or update, and the control loop goes
\* on: the pass has returned and the object is queued for a retry.
C13_MutationErrorReturned ==
    \A d \in Objects :
        (StatusWriteFailed(pass[d]) /\ pass[d].calls[2].err # NoErr) =>
            /\ pass[d].err = pass[d].calls[2].err
            /\ pass[d].err # StatusErr
            /\ queued[d]

\* create or update failed, then the status write failed
C13_Witness ==
    \E d \in Objects :
        /\ StatusWriteFailed(pass[d])
        /\ pass[d].calls[2].err = UnavailableErr
        /\ pass[d].err = UnavailableErr

(* -------------------------------- C14 ---------------------------------- *)

\* C14: an ownership denial is not retried. A pass that ended in a denied
\* verdict returns no error to the control loop, so the object is queued
\* again only by a new event.
C14_DenialNotRetried ==
    \A d \in Objects :
        (FinishedUpsert(pass[d]) /\ GotForeign(pass[d])) => pass[d].err = NoErr

(* -------------------------------- C15 ---------------------------------- *)

\* C15: shared-resource race. No create or update of the engine that took
\* effect replaced a resource which carried a foreign or absent origin at
\* the moment of the write, whatever another writer did since the pass's get.
C15_NoOverwriteOfForeign ==
    \A d \in Objects :
        \A i \in CallsOf(pass[d], Mutating) :
            pass[d].calls[i].err = NoErr => ~Foreign(pass[d].calls[i].saw)

(* -------------------------------- C16 ---------------------------------- *)

\* the pass got NotFound and its create call succeeded
CreatedFromNotFound(p) ==
    /\ Len(p.calls) >= 2
    /\ p.calls[1].op = "get" /\ p.calls[1].err = NotFoundErr
    /\ p.calls[2].op = "create" /\ p.calls[2].err = NoErr

\* C16: two engines racing for a resource that does not exist yet. A pass that
\* got NotFound makes a create call, and that call succeeds and stores the
\* pass's resource even when the other engine's create has put a resource
\* under the name since the get.
C16_BothCreatesSucceed ==
    [][\A e \in RaceObjects :
        (pass[e].pc = "mutate" /\ pass'[e].pc = "persist"
            /\ pass[e].calls[1].err = NotFoundErr) =>
            /\ CreatedFromNotFound(pass'[e])
            /\ remote'[NameOf(e)].spec = pass[e].obj.spec
            /\ remote'[NameOf(e)].origin = OriginKubernetes]_vars

\* both engines got NotFound and both creates succeeded, the second one on
\* top of the resource the first had created
C16_Witness ==
    /\ CreatedFromNotFound(pass["a1"]) /\ CreatedFromNotFound(pass["a2"])
    /\ ~pass["a1"].calls[2].saw.found
    /\ Owned(pass["a2"].calls[2].saw)

(* -------------------------------- C17 ---------------------------------- *)

\* what of object d belongs to its users: whether it is in the store, its
\* spec, its generation and its deletion marker (its name is d's, fixed)
UsersPart(store, d) ==
    IF store[d] = NoObject THEN NoObject
    ELSE [present |-> TRUE, spec |-> store[d].spec,
          generation |-> store[d].generation, deletion |-> store[d].deletion]

\* C17: the engine changes nothing on an object but its finalizer marker and
\* its status conditions. No step of a pass, on the upsert or the delete
\* path, succeeding or failing, changes whether an object is in the store,
\* its spec, its generation or its deletion marker.
C17_EngineWritesOnlyFinalizerAndStatus ==
    [][(\E e \in SpecObjects : Engine(e, Outcomes)) =>
          \A d \in Objects : UsersPart(k8s', d) = UsersPart(k8s, d)]_vars

\* a pass has written the status conditions and the finalizer of an object
\* that has been edited
C17_Witness ==
    \E d \in Objects :
        /\ k8s[d] # NoObject /\ k8s[d].finalizer /\ k8s[d].conditions # <<>>
        /\ k8s[d].generation > 1
        /\ pass[d].pc = "idle" /\ pass[d].path = "upsert" /\ pass[d].err = NoErr

(* -------------------------------- C18 ---------------------------------- *)

\* a pass makes at most one mutating call, and has made exactly one once it
\* is past the mutation step
OneMutatingCall ==
    \A d \in Objects :
        /\ Cardinality(CallsOf(pass[d], Mutating)) <= 1
        /\ pass[d].pc = "persist" =>
              CallsOf(pass[d], Mutating) = {2} /\ Len(pass[d].calls) = 2

\* the mutation step of the pass of d
MutationStep(d) == pass[d].pc = "mutate" /\ pass'[d].pc = "persist"

\* C18: a pass that reaches the mutation step invokes exactly one of create
\* and update, once: create if and only if its get returned NotFound, update
\* if and only if its get returned a resource; and the resource the call
\* stores carries the engine's origin.
C18_ExactlyOneOfCreateUpdate ==
    /\ []OneMutatingCall
    /\ [][\A d \in Objects :
            MutationStep(d) =>
                LET got == pass[d].calls[1]
                    call == pass'[d].calls[2]
                IN /\ pass'[d].calls = Append(pass[d].calls, call)
                   /\ (call.op = "create") <=> (got.err = NotFoundErr)
                   /\ (call.op = "update") <=> (got.err = NoErr /\ got.saw.found)
                   /\ call.err = NoErr =>
                        remote'[NameOf(d)].origin = OriginKubernetes]_vars

\* a pass that got the resource made its one mutating call, an update
C18_Witness ==
    \E d \in Objects :
        /\ pass[d].pc = "persist"
        /\ pass[d].calls[1].err = NoErr /\ pass[d].calls[1].saw.found
        /\ pass[d].calls[2].op = "update" /\ pass[d].calls[2].err = NoErr
        /\ remote[NameOf(d)].origin = OriginKubernetes

(* -------------------------------- C19 ---------------------------------- *)

\* C19: ordering within one pass. A pass about to make its mutating call has
\* made its get and holds a granted ownership verdict; a mutating call comes
\* after the get and before every status write of the pass; and a pass that
\* was granted ownership writes the status only after its mutating call.
C19_OrderWithinPass ==
    \A d \in Objects :
        LET p == pass[d]
        IN /\ p.pc = "mutate" =>
                /\ Ops(p) = <<"get">> /\ GotClaimable(p)
                /\ FindCondition(p.obj.conditions, OwnershipType).status = "True"
           /\ \A i \in CallsOf(p, Mutating) :
                /\ i > 1 /\ p.calls[1].op = "get" /\ GotClaimable(p)
                /\ \A j \in CallsOf(p, {"status"}) : j > i
           /\ \A j \in CallsOf(p, {"status"}) :
                GotClaimable(p) => \E i \in CallsOf(p, Mutating) : i < j

\* a finished pass: get, then update, then the status write
C19_Witness ==
    \E d \in Objects :
        /\ pass[d].pc = "idle"
        /\ Ops(pass[d]) = <<"get", "update", "status">>
        /\ pass[d].calls[3].err = NoErr

(* -------------------------------- C20 ---------------------------------- *)

\* the ownership condition of a denial that found the given origin
Denied(origin) == Condition(OwnershipType, "False", "origin conflict", origin)

\* C20: the denied verdict is persisted before the pass returns. A pass whose
\* get found a foreign or absent origin sets the ownership condition to
\* false with reason "origin conflict", attempts one status write, and
\* returns with no create or update call: a write that succeeds stores the
\* object's conditions with that ownership condition set and nothing else
\* changed, a write that fails leaves the store as it was.
C20_DenialPersisted ==
    [][\A d \in Objects :
        (UpsertGet(d, Outcomes) /\ GotForeign(pass'[d])) =>
            LET p == pass'[d]
                c == Denied(p.calls[1].saw.origin)
            IN /\ p.pc = "idle"
               /\ Ops(p) = <<"get", "status">>
               /\ remote' = remote
               /\ IF p.calls[2].err = NoErr
                  THEN k8s' = [k8s EXCEPT ![d].conditions =
                                  SetStatusCondition(k8s[d].conditions, c)]
                  ELSE k8s' = k8s]_vars

\* a denial whose status write replaced a true ownership condition stored by
\* an earlier pass
C20_Witness ==
    \E d \in Objects :
        /\ pass[d].pc = "idle" /\ GotForeign(pass[d])
        /\ Ops(pass[d]) = <<"get", "status">> /\ pass[d].calls[2].err = NoErr
        /\ k8s[d] # NoObject /\ Len(k8s[d].conditions) = 2
        /\ FindCondition(k8s[d].conditions, OwnershipType) =
              Denied(pass[d].calls[1].saw.origin)
        /\ FindCondition(k8s[d].conditions, ReconciliationType).status = "True"

(* -------------------------------- C21 ---------------------------------- *)

\* C21: a get that fails with an error other than NotFound aborts the pass.
\* The pass returns the get's error with the get as its only call: no
\* ownership condition is set, no status is written, the backend and the
\* store are left as they were.
C21_GetErrorAborts ==
    [][\A d \in Objects :
        (UpsertGet(d, Outcomes) /\ pass'[d].calls[1].err = UnavailableErr) =>
            /\ pass'[d].pc = "idle"
            /\ Ops(pass'[d]) = <<"get">>
            /\ pass'[d].err = UnavailableErr
            /\ remote' = remote
            /\ k8s' = k8s]_vars

\* a pass on an object synced before returned on a failed get, with the
\* stored conditions of the earlier pass still in place
C21_Witness ==
    \E d \in Objects :
        /\ pass[d].pc = "idle" /\ pass[d].path = "upsert"
        /\ Ops(pass[d]) = <<"get">> /\ pass[d].err = UnavailableErr
        /\ k8s[d] # NoObject /\ k8s[d].finalizer
        /\ FindCondition(k8s[d].conditions, ReconciliationType).status = "True"

(* -------------------------------- C22 ---------------------------------- *)

\* the three results of a get that did not abort the pass
FetchedNothing(call) == call.err = NotFoundErr /\ ~call.saw.found

FetchedOwned(call) == call.err = NoErr /\ Owned(call.saw)

FetchedForeign(call) == call.err = NoErr /\ Foreign(call.saw)

\* C22: the verdict table of the ownership check. A get that returned
\* NotFound is granted with ownership true, reason "new resource"; a resource
\* under the engine's origin is granted with ownership true, reason "already
\* owned"; a resource under another or no origin is denied with ownership
\* false, reason "origin conflict", the message naming the origin; and every
\* get that does not abort the pass falls in exactly one of the three cases.
C22_VerdictTable ==
    [][\A d \in Objects :
        (UpsertGet(d, Outcomes) /\ pass'[d].calls[1].err # UnavailableErr) =>
            LET p == pass'[d]
                got == p.calls[1]
                granted == FindCondition(p.obj.conditions, OwnershipType)
            IN /\ Cardinality({c \in {"nothing", "owned", "foreign"} :
                      \/ c = "nothing" /\ FetchedNothing(got)
                      \/ c = "owned" /\ FetchedOwned(got)
                      \/ c = "foreign" /\ FetchedForeign(got)}) = 1
               /\ FetchedNothing(got) =>
                    /\ p.pc = "mutate"
                    /\ granted = Condition(OwnershipType, "True", "new resource", "")
               /\ FetchedOwned(got) =>
                    /\ p.pc = "mutate"
                    /\ granted = Condition(OwnershipType, "True", "already owned", "")
               /\ FetchedForeign(got) =>
                    /\ p.pc = "idle" /\ p.err = OwnershipErr
                    /\ p.calls[2].err = NoErr =>
                         FindCondition(k8s'[d].conditions, OwnershipType) =
                            Condition(OwnershipType, "False", "origin conflict",
                                      got.saw.origin)]_vars

\* a pass granted ownership of a resource it found under the engine's origin
C22_Witness ==
    \E d \in Objects :
        /\ pass[d].pc = "mutate" /\ FetchedOwned(pass[d].calls[1])
        /\ FindCondition(pass[d].obj.conditions, OwnershipType).reason = "already owned"

(* -------------------------------- C23 ---------------------------------- *)

\* whether object d of the store holds the finalizer
Finalizer(store, d) == store[d] # NoObject /\ store[d].finalizer

\* the error the upsert path of a returned pass ended with, read off its calls
UpsertError(p) ==
    IF p.calls[1].err = UnavailableErr THEN UnavailableErr
    ELSE IF GotForeign(p) THEN OwnershipErr
    ELSE IF p.calls[2].err # NoErr THEN p.calls[2].err
    ELSE p.calls[3].err

\* C23: the base loop on an object with no deletion marker. The pass runs the
\* upsert path. When the upsert path ends with no error the finalizer is
\* attached if absent, and is present once the pass returns no error (a
\* failed attach is returned and retried); when the upsert path ends with an
\* error the finalizer is left as it was, the pass returns that error and the
\* object is queued again.
C23_UpsertThenFinalizer ==
    [][\A d \in Objects :
        /\ (Engine(d, Outcomes) /\ pass[d].pc = "idle"
              /\ k8s[d] # NoObject /\ ~k8s[d].deletion) =>
              pass'[d].path = "upsert" /\ pass'[d].calls[1].op = "get"
        /\ ((UpsertGet(d, Outcomes) \/ UpsertPersist(d, Outcomes))
              /\ pass'[d].pc = "idle") =>
              LET p == pass'[d]
              IN IF UpsertError(p) = NoErr
                 THEN \/ p.err = NoErr /\ Finalizer(k8s', d)
                      \/ /\ p.err = UpdateErr /\ queued'[d]
                         /\ ~Finalizer(k8s, d) /\ ~Finalizer(k8s', d)
                 ELSE /\ Finalizer(k8s', d) = Finalizer(k8s, d)
                      /\ p.err = UpsertError(p)
                      /\ queued'[d]]_vars

\* the first successful pass on an object has attached the finalizer
C23_Witness ==
    \E d \in Objects :
        /\ pass[d].pc = "idle" /\ pass[d].path = "upsert" /\ pass[d].err = NoErr
        /\ Ops(pass[d]) = <<"get", "create", "status">>
        /\ UpsertError(pass[d]) = NoErr
        /\ Finalizer(k8s, d) /\ ~k8s[d].deletion

(* -------------------------------- C24 ---------------------------------- *)

\* C24: the base loop on an object marked for deletion that holds the
\* finalizer. The pass runs the delete path and makes no get, create or
\* update call. When the delete path ends with no error the pass goes on to
\* remove the finalizer, which is gone if that write succeeds; when the
\* delete path ends with an error the finalizer is kept, the pass returns the
\* error and the object is queued again.
C24_DeleteThenUnfinalize ==
    [][\A d \in Objects :
        (Engine(d, Outcomes) /\ pass[d].pc = "idle"
            /\ k8s[d] # NoObject /\ k8s[d].deletion /\ k8s[d].finalizer) =>
            LET p == pass'[d]
            IN /\ p.pc = "idle" /\ p.path = "delete"
               /\ p.calls[1].op = "delete"
               /\ CallsOf(p, Mutating \cup {"get", "status"}) = {}
               /\ IF p.calls[1].err = NoErr
                  THEN /\ Ops(p) = <<"delete", "unfinalize">>
                       /\ p.err = p.calls[2].err
                       /\ Finalizer(k8s', d) = (p.calls[2].err # NoErr)
                  ELSE /\ Ops(p) = <<"delete">>
                       /\ Finalizer(k8s', d)
                       /\ p.err = p.calls[1].err
                       /\ queued'[d]]_vars

\* a delete pass has deleted the resource and removed the finalizer
C24_Witness ==
    \E d \in Objects :
        /\ pass[d].pc = "idle" /\ pass[d].path = "delete" /\ pass[d].err = NoErr
        /\ Ops(pass[d]) = <<"delete", "unfinalize">>
        /\ pass[d].calls[1].saw.found
        /\ k8s[d] # NoObject /\ k8s[d].deletion /\ ~k8s[d].finalizer

(* -------------------------------- C25 ---------------------------------- *)

\* C25: the base loop on an object marked for deletion whose finalizer is
\* already absent. The pass is a no-op: it makes no call, leaves the backend
\* and the store (finalizer and status included) as they were, and returns
\* no error.
C25_NoOpWithoutFinalizer ==
    [][\A d \in Objects :
        (Engine(d, Outcomes) /\ pass[d].pc = "idle"
            /\ k8s[d] # NoObject /\ k8s[d].deletion /\ ~k8s[d].finalizer) =>
            /\ pass'[d].pc = "idle" /\ pass'[d].calls = <<>>
            /\ pass'[d].err = NoErr
            /\ remote' = remote
            /\ k8s' = k8s]_vars

\* a no-op pass ran on an object marked for deletion that holds no
\* finalizer and that the store has not removed yet
C25_Witness ==
    \E d \in Objects :
        /\ pass[d].pc = "idle" /\ pass[d].path = "noop" /\ pass[d].calls = <<>>
        /\ k8s[d] # NoObject /\ k8s[d].deletion /\ ~k8s[d].finalizer
        /\ k8s[d].conditions # <<>>

(* -------------------------------- C26 ---------------------------------- *)

\* C26: a delete call that failed with an error other than NotFound. The
\* delete pass made that call alone and returned its error unchanged; the
\* object is queued for a retry and still holds the finalizer.
C26_DeleteErrorReturned ==
    \A d \in Objects :
        (pass[d].pc = "idle" /\ pass[d].path = "delete"
            /\ pass[d].calls[1].err = UnavailableErr) =>
            /\ Ops(pass[d]) = <<"delete">>
            /\ pass[d].err = UnavailableErr
            /\ queued[d]
            /\ Finalizer(k8s, d) /\ k8s[d].deletion

\* a failed delete left the resource in the backend and the finalizer on
\* the object
C26_Witness ==
    \E d \in Objects :
        /\ pass[d].pc = "idle" /\ pass[d].path = "delete"
        /\ pass[d].calls[1].err = UnavailableErr /\ pass[d].calls[1].saw.found
        /\ pass[d].err = UnavailableErr
        /\ remote[NameOf(d)] # NoResource /\ Finalizer(k8s, d)

(* -------------------------------- C27 ---------------------------------- *)

\* no call of the last pass of d failed
NoCallFails(d) ==
    /\ \A i \in DOMAIN pass[d].calls :
          pass[d].calls[i].err \notin {UnavailableErr, StatusErr}
    /\ pass[d].err # UpdateErr

\* the resource of d matches the declared spec and the stored reconciliation
\* condition is true
InSync(d) ==
    /\ remote[NameOf(d)] = Declared(d)
    /\ FindCondition(k8s[d].conditions, ReconciliationType).status = "True"

\* a pass whose create or update failed returns that error, is queued again,
\* and its status write, if it succeeds, stores the reconciliation condition
\* false with the error as message next to the ownership condition
FailureRecorded ==
    \A d \in Objects :
        (UpsertPersist(d, Outcomes) /\ pass[d].err # NoErr) =>
            /\ pass'[d].err = pass[d].err
            /\ queued'[d]
            /\ pass'[d].calls[3].err = NoErr =>
                 /\ Len(k8s'[d].conditions) = 2
                 /\ FindCondition(k8s'[d].conditions, ReconciliationType) =
                       Condition(ReconciliationType, "False", "failure", pass[d].err)
                 /\ FindCondition(k8s'[d].conditions, OwnershipType).status = "True"

\* C27: transient remote errors. Every pass in which create or update fails
\* records the failure in the status and returns the error, so that it is
\* delivered again; and if from some time on no call fails, then from some
\* time on the resource of every object in the store, unless it is under a
\* foreign origin, equals the declared spec with the reconciliation condition
\* true.
C27_TransientErrorsRecover ==
    /\ [][FailureRecorded]_vars
    /\ (<>[](\A d \in SpecObjects : NoCallFails(d))) =>
          <>[](\A d \in SpecObjects :
                  k8s[d] = NoObject \/ Foreign(Saw(remote[NameOf(d)])) \/ InSync(d))

\* a failed create has been recorded: the stored reconciliation condition is
\* false with the error as message, the ownership condition true, the pass
\* has returned the error and the object is queued again
C27_Witness ==
    \E d \in SpecObjects :
        /\ pass[d].pc = "idle" /\ pass[d].err = UnavailableErr /\ queued[d]
        /\ Ops(pass[d]) = <<"get", "create", "status">>
        /\ pass[d].calls[2].err = UnavailableErr /\ pass[d].calls[3].err = NoErr
        /\ k8s[d] # NoObject
        /\ FindCondition(k8s[d].conditions, ReconciliationType) =
              Condition(ReconciliationType, "False", "failure", UnavailableErr)
        /\ FindCondition(k8s[d].conditions, OwnershipType).status = "True"

(* -------------------------------- C28 ---------------------------------- *)

\* the conditions of one kind among conds
OfKind(conds, type) == {i \in DOMAIN conds : conds[i].type = type}

\* at most one ownership and at most one reconciliation condition, and no
\* condition of another kind
SetOfKinds(conds) ==
    /\ Cardinality(OfKind(conds, OwnershipType)) <= 1
    /\ Cardinality(OfKind(conds, ReconciliationType)) <= 1
    /\ Len(conds) = Cardinality(OfKind(conds, OwnershipType))
                      + Cardinality(OfKind(conds, ReconciliationType))

\* the ownership condition set by a pass replaces the ownership condition
\* and keeps the reconciliation condition the object had
OwnershipWriteKeepsOther(d) ==
    (UpsertGet(d, Outcomes) /\ pass'[d].pc = "mutate") =>
        /\ FindCondition(pass'[d].obj.conditions, ReconciliationType) =
              FindCondition(k8s[d].conditions, ReconciliationType)
        /\ FindCondition(pass'[d].obj.conditions, OwnershipType) =
              checkOwnership(IF pass'[d].exists THEN remote[NameOf(d)]
                             ELSE NoResource).cond

\* the reconciliation condition set by a pass replaces the reconciliation
\* condition and keeps the ownership condition of the buffer
ReconciliationWriteKeepsOther(d) ==
    UpsertMutate(d, Outcomes) =>
        /\ FindCondition(pass'[d].obj.conditions, OwnershipType) =
              FindCondition(pass[d].obj.conditions, OwnershipType)
        /\ FindCondition(pass'[d].obj.conditions, ReconciliationType) =
              getReconciliationConditionFromError(pass'[d].calls[2].err)

\* C28: condition set semantics. The status of an object, and the buffer of
\* a running pass, hold at most one ownership condition and at most one
\* reconciliation condition; a condition a pass sets replaces the one of its
\* kind and leaves the one of the other kind untouched.
C28_ConditionSetSemantics ==
    /\ [](\A d \in Objects :
            /\ k8s[d] # NoObject => SetOfKinds(k8s[d].conditions)
            /\ pass[d].obj # NoObject => SetOfKinds(pass[d].obj.conditions))
    /\ [][\A d \in Objects :
            OwnershipWriteKeepsOther(d) /\ ReconciliationWriteKeepsOther(d)]_vars

\* a later pass has replaced both conditions an earlier pass had stored: the
\* status still holds the two, the ownership one now "already owned"
C28_Witness ==
    \E d \in Objects :
        /\ k8s[d] # NoObject /\ Len(k8s[d].conditions) = 2
        /\ FindCondition(k8s[d].conditions, OwnershipType).reason = "already owned"
        /\ FindCondition(k8s[d].conditions, ReconciliationType).status = "False"
        /\ pass[d].pc = "idle" /\ Ops(pass[d]) = <<"get", "update", "status">>
        /\ pass[d].calls[3].err = NoErr

(* -------------------------------- C29 ---------------------------------- *)

\* C29: a conversion failure is fatal for the pass and is surfaced in the
\* status. A pass handed an object it cannot convert makes no call on the
\* backend, and the reconciliation condition of the object is false once the
\* pass has returned.
C29_ConversionFailureSurfaced ==
    [][\A d \in Objects :
        UpsertNotConverted(d) =>
            /\ CallsOf(pass'[d], Mutating \cup {"get"}) = {}
            /\ remote' = remote
            /\ FindCondition(k8s'[d].conditions, ReconciliationType).status
                  = "False"]_vars

(* -------------------------------- C30 ---------------------------------- *)

\* C30: whole-object upsert. A create or update call that succeeds leaves
\* under the name exactly the conversion of the object the pass fetched,
\* stamped with the engine's origin, whatever the backend held before; the
\* rest of the backend is untouched.
C30_WholeObjectUpsert ==
    [][\A d \in Objects :
        (UpsertMutate(d, Outcomes) /\ pass'[d].calls[2].err = NoErr) =>
            remote' = [remote EXCEPT ![NameOf(d)] =
                          [found |-> TRUE, name |-> NameOf(d),
                           origin |-> OriginKubernetes,
                           spec |-> pass[d].obj.spec]]]_vars

\* an update for an edited object, on a resource found engine-owned, has
\* left the conversion of the edited spec in the backend
C30_Witness ==
    \E d \in Objects :
        /\ pass[d].pc = "persist" /\ pass[d].obj.generation = 2
        /\ FetchedOwned(pass[d].calls[1])
        /\ pass[d].calls[2].op = "update" /\ pass[d].calls[2].err = NoErr
        /\ Owned(pass[d].calls[2].saw)
        /\ remote[NameOf(d)].spec = pass[d].obj.spec

(* -------------------------------- C31 ---------------------------------- *)

\* C31: every condition a pass has written to the status carries as its
\* observed generation the generation of the object the pass fetched.
C31_ObservedGeneration ==
    [][\A d \in Objects :
        (UpsertPersist(d, Outcomes) /\ pass'[d].calls[3].err = NoErr) =>
            \A i \in DOMAIN k8s'[d].conditions :
                k8s'[d].conditions[i].observedGeneration = pass[d].obj.generation]_vars

(* -------------------------------- C32 ---------------------------------- *)

\* s is an initial part of t
IsPrefix(s, t) == Len(s) <= Len(t) /\ \A i \in DOMAIN s : s[i] = t[i]

\* one pass at a time for an object: the calls of a running pass only grow,
\* and a pass starts only when the pass before it has returned
OnePassAtATime(d) ==
    \/ pass[d].pc = "idle"
    \/ IsPrefix(pass[d].calls, pass'[d].calls) /\ pass'[d].path = pass[d].path

\* the calls a step adds to the log of d's pass
NewCalls(d) ==
    IF pass[d].pc = "idle" THEN pass'[d].calls
    ELSE SubSeq(pass'[d].calls, Len(pass[d].calls) + 1, Len(pass'[d].calls))

\* a step of the engine for object d, whose name is name, reads the resource
\* under that name and leaves the resource under the other name, the other
\* object and the other object's pass as they were
KeepsOther(d, name, other, otherName) ==
    Engine(d, {"ok"}) =>
        /\ remote'[otherName] = remote[otherName]
        /\ k8s'[other] = k8s[other]
        /\ pass'[other] = pass[other]
        /\ \A i \in DOMAIN NewCalls(d) :
              NewCalls(d)[i].op \in {"get", "create", "update", "delete"} =>
                  NewCalls(d)[i].saw = Saw(remote[name])

\* C32: per-name serialization. At most one pass for an object is in
\* progress at a time, while the passes of objects of different names
\* interleave; and a pass for one name reads and writes only the resource
\* under that name and the status of its own object.
C32_PerNameSerialization ==
    /\ [][\A d \in Objects : OnePassAtATime(d)]_vars
    /\ [][/\ KeepsOther("a1", "conn-a", "b1", "conn-b")
          /\ KeepsOther("b1", "conn-b", "a1", "conn-a")]_vars

\* the passes of the two objects are in progress at once, each having
\* written the resource under its own name
C32_Witness ==
    /\ pass["a1"].pc = "persist" /\ pass["b1"].pc = "persist"
    /\ remote["conn-a"] # NoResource /\ remote["conn-b"] # NoResource
    /\ remote["conn-a"].name = "conn-a" /\ remote["conn-b"].name = "conn-b"

(* -------------------------------- C33 ---------------------------------- *)

\* the object as stored shows ownership true and reconciliation true
StoredBothTrue(store, d) ==
    /\ store[d] # NoObject
    /\ FindCondition(store[d].conditions, OwnershipType).status = "True"
    /\ FindCondition(store[d].conditions, ReconciliationType).status = "True"

\* the pass got a grantable verdict, its create or update succeeded and its
\* status write succeeded
CleanUpsert(p) ==
    /\ Len(p.calls) = 3 /\ GotClaimable(p)
    /\ p.calls[2].op \in Mutating /\ p.calls[2].err = NoErr
    /\ p.calls[3].op = "status" /\ p.calls[3].err = NoErr

\* C33: an upsert pass returns no error only if its ownership verdict was
\* grantable, its create or update call succeeded and the status it stored
\* shows ownership true and reconciliation true; and the finalizer is
\* attached only by a pass whose create or update succeeded.
C33_NoErrorOnlyAfterSuccess ==
    [][\A d \in Objects :
        /\ ((UpsertGet(d, Outcomes) \/ UpsertPersist(d, Outcomes))
              /\ pass'[d].pc = "idle" /\ pass'[d].err = NoErr) =>
                  CleanUpsert(pass'[d]) /\ StoredBothTrue(k8s', d)
        /\ (~Finalizer(k8s, d) /\ Finalizer(k8s', d)) =>
              /\ UpsertPersist(d, Outcomes)
              /\ CleanUpsert(pass'[d]) /\ StoredBothTrue(k8s', d)]_vars

\* a pass that updated an engine-owned resource has returned no error and
\* left the finalizer and both conditions true on the object
C33_Witness ==
    \E d \in Objects :
        /\ FinishedUpsert(pass[d]) /\ pass[d].err = NoErr
        /\ Ops(pass[d]) = <<"get", "update", "status">>
        /\ Finalizer(k8s, d) /\ StoredBothTrue(k8s, d)

(* -------------------------------- C34 ---------------------------------- *)

\* C34: a denial leaves the reconciliation condition as the pass before wrote
\* it. A pass whose get found a foreign or absent origin replaces the
\* ownership condition alone, in the stored object as in its own copy, so
\* that the stored status can show reconciliation true from an earlier pass
\* next to ownership false from this one.
C34_DenialKeepsReconciliation ==
    [][\A d \in Objects :
        (UpsertGet(d, Outcomes) /\ GotForeign(pass'[d])) =>
            /\ FindCondition(k8s'[d].conditions, ReconciliationType) =
                  FindCondition(k8s[d].conditions, ReconciliationType)
            /\ OfKind(k8s'[d].conditions, ReconciliationType) =
                  OfKind(k8s[d].conditions, ReconciliationType)
            /\ pass'[d].calls[2].err = NoErr =>
                  FindCondition(k8s'[d].conditions, OwnershipType) =
                      Denied(pass'[d].calls[1].saw.origin)]_vars

\* the stored status shows the success of an earlier pass next to the denial
\* of the last one, which made no create or update call
C34_Witness ==
    \E d \in Objects :
        /\ FinishedUpsert(pass[d]) /\ pass[d].err = OwnershipErr
        /\ CallsOf(pass[d], Mutating) = {}
        /\ k8s[d] # NoObject /\ k8s[d].finalizer
        /\ FindCondition(k8s[d].conditions, ReconciliationType) =
              Condition(ReconciliationType, "True", "success", "")
        /\ FindCondition(k8s[d].conditions, OwnershipType).status = "False"

(* -------------------------------- C35 ---------------------------------- *)

\* C35: a get that fails with an error other than NotFound leaves the
\* object's conditions as they were and no status write is attempted: the
\* log of the pass holds no status call, the stored conditions are unchanged,
\* and the copy the pass held is dropped with the pass.
C35_GetErrorKeepsConditions ==
    [][\A d \in Objects :
        (UpsertGet(d, Outcomes) /\ ~IsNotFound(pass'[d].calls[1].err)
            /\ pass'[d].calls[1].err # NoErr) =>
                /\ CallsOf(pass'[d], {"status"}) = {}
                /\ k8s'[d].conditions = k8s[d].conditions
                /\ pass'[d].obj = NoObject]_vars

\* a pass returned on a failed get while the object's stored status showed a
\* failed reconciliation of an earlier pass
C35_Witness ==
    \E d \in Objects :
        /\ FinishedUpsert(pass[d]) /\ Ops(pass[d]) = <<"get">>
        /\ pass[d].calls[1].err = UnavailableErr
        /\ k8s[d] # NoObject
        /\ FindCondition(k8s[d].conditions, ReconciliationType).status = "False"

(* -------------------------------- C36 ---------------------------------- *)

\* the resource under the name of d is there and engine-owned
RemoteOwned(d) == Owned(Saw(remote[NameOf(d)]))

\* the last call in the log of the pass
LastCall(p) == p.calls[Len(p.calls)]

\* the ownership condition the object carries in the store
StoredOwnership(store, d) == FindCondition(store[d].conditions, OwnershipType)

\* C36: ownership stability, with no other writer of the backend. A pass
\* whose create or update succeeded leaves an engine-owned resource, which
\* stays engine-owned until the delete path removes it; while it is there,
\* every upsert pass whose get succeeds is granted as "already owned" and
\* takes the update path; the stored ownership condition never goes from
\* true to false; and create is called only when the resource is absent.
C36_OwnershipStability ==
    /\ [](\A d \in Objects :
            (pass[d].path = "upsert" /\ MutatedOk(pass[d])) => RemoteOwned(d))
    /\ [][\A d \in Objects :
            /\ RemoteOwned(d) =>
                  \/ Owned(Saw(remote'[NameOf(d)]))
                  \/ /\ remote'[NameOf(d)] = NoResource
                     /\ \E e \in Objects :
                           NameOf(e) = NameOf(d) /\ DoDelete(e, Outcomes)
            /\ (RemoteOwned(d) /\ UpsertGet(d, Outcomes)
                  /\ pass'[d].calls[1].err = NoErr) =>
                      /\ pass'[d].pc = "mutate" /\ pass'[d].exists
                      /\ FindCondition(pass'[d].obj.conditions, OwnershipType) =
                            Condition(OwnershipType, "True", "already owned", "")
            /\ (RemoteOwned(d) /\ UpsertMutate(d, Outcomes)) =>
                  LastCall(pass'[d]).op = "update"
            /\ (UpsertMutate(d, Outcomes) /\ LastCall(pass'[d]).op = "create") =>
                  remote[NameOf(d)] = NoResource
            /\ (k8s[d] # NoObject /\ k8s'[d] # NoObject
                  /\ StoredOwnership(k8s, d).status = "True") =>
                      StoredOwnership(k8s', d).status = "True"]_vars

\* after a pass that created the resource and one whose get failed, a third
\* pass was granted as "already owned" and updated the resource
C36_Witness ==
    \E d \in Objects :
        /\ FinishedUpsert(pass[d]) /\ pass[d].err = NoErr
        /\ Ops(pass[d]) = <<"get", "update", "status">>
        /\ FetchedOwned(pass[d].calls[1])
        /\ k8s[d] # NoObject /\ k8s[d].generation > 1
        /\ StoredOwnership(k8s, d) =
              Condition(OwnershipType, "True", "already owned", "")
        /\ remote[NameOf(d)] = Declared(d)

(* -------------------------------- C37 ---------------------------------- *)

\* the ownership condition that the result of a get determines
VerdictOf(call) ==
    IF FetchedNothing(call)
    THEN Condition(OwnershipType, "True", "new resource", "")
    ELSE IF FetchedOwned(call)
    THEN Condition(OwnershipType, "True", "already owned", "")
    ELSE Denied(call.saw.origin)

\* C37: an upsert pass makes one get call, its first call, and both the
\* ownership verdict and the choice between create and update are functions
\* of the result of that get alone: the backend is not read again between the
\* ownership check and the mutating call, whatever has become of the resource
\* in the meantime.
C37_SingleGet ==
    /\ [](\A d \in Objects :
            (pass[d].path = "upsert" /\ pass[d].calls # <<>>) =>
                CallsOf(pass[d], {"get"}) = {1})
    /\ [][\A d \in Objects :
            /\ (UpsertGet(d, Outcomes) /\ pass'[d].pc = "mutate") =>
                  /\ FindCondition(pass'[d].obj.conditions, OwnershipType) =
                        VerdictOf(pass'[d].calls[1])
                  /\ pass'[d].exists = ~IsNotFound(pass'[d].calls[1].err)
            /\ (UpsertGet(d, Outcomes) /\ pass'[d].pc = "idle"
                  /\ Len(pass'[d].calls) = 2 /\ pass'[d].calls[2].err = NoErr) =>
                      StoredOwnership(k8s', d) = VerdictOf(pass'[d].calls[1])
            /\ UpsertMutate(d, Outcomes) =>
                  /\ Len(pass'[d].calls) = 2 /\ pass'[d].calls[1] = pass[d].calls[1]
                  /\ LastCall(pass'[d]).op =
                        (IF IsNotFound(pass[d].calls[1].err) THEN "create" ELSE "update")
                  /\ FindCondition(pass'[d].obj.conditions, OwnershipType) =
                        VerdictOf(pass[d].calls[1])]_vars

\* a pass whose get found nothing created the resource over one that another
\* writer had put there since, under a foreign origin, and stored the verdict
\* of a new resource
C37_Witness ==
    \E d \in Objects :
        /\ FinishedUpsert(pass[d]) /\ Ops(pass[d]) = <<"get", "create", "status">>
        /\ FetchedNothing(pass[d].calls[1])
        /\ Foreign(pass[d].calls[2].saw) /\ pass[d].calls[2].err = NoErr
        /\ pass[d].calls[3].err = NoErr
        /\ k8s[d] # NoObject
        /\ StoredOwnership(k8s, d) =
              Condition(OwnershipType, "True", "new resource", "")

(* -------------------------------- C38 ---------------------------------- *)

\* the last pass of d created or updated the resource and then failed to
\* write the status
WroteButStatusFailed(d) ==
    StatusWriteFailed(pass[d]) /\ pass[d].calls[2].err = NoErr

\* what a pass with no failing call leaves for the object it holds: the
\* resource the object declares, and both conditions true in the store
AsAfterCleanPass(d, obj) ==
    /\ remote'[NameOf(d)] = StampOrigin(ToTeleport(NameOf(d), obj))
    /\ StoredBothTrue(k8s', d)
    /\ Len(k8s'[d].conditions) = 2
    /\ pass'[d].err = NoErr => Finalizer(k8s', d)

\* C38: a status write that fails after the create or update succeeded. The
\* pass returns the error of the status write and is delivered again; with
\* no other writer, the next pass whose get succeeds finds the resource
\* under the engine's origin and updates it, never creating it a second
\* time; and once its status write succeeds the resource, the conditions and
\* the finalizer are those a pass with no failure leaves.
C38_StatusFailureRecovers ==
    /\ [](\A d \in Objects :
            WroteButStatusFailed(d) =>
                /\ pass[d].err = StatusErr /\ queued[d]
                /\ RemoteOwned(d))
    /\ [][\A d \in Objects :
            /\ (WroteButStatusFailed(d) /\ UpsertGet(d, Outcomes)) =>
                  /\ pass'[d].calls[1].err # NotFoundErr
                  /\ pass'[d].calls[1].err = NoErr =>
                        /\ FetchedOwned(pass'[d].calls[1])
                        /\ pass'[d].pc = "mutate" /\ pass'[d].exists
            /\ (UpsertMutate(d, Outcomes) /\ FetchedOwned(pass[d].calls[1])) =>
                  LastCall(pass'[d]).op = "update"
            /\ (UpsertPersist(d, Outcomes) /\ FetchedOwned(pass[d].calls[1])
                  /\ pass[d].calls[2].err = NoErr
                  /\ LastCall(pass'[d]).err = NoErr) =>
                      AsAfterCleanPass(d, pass[d].obj)]_vars

\* the first pass of an object created the resource and failed to write the
\* status: the resource is there, the object carries no condition and no
\* finalizer, and the pass is queued again
C38_Witness ==
    \E d \in Objects :
        /\ WroteButStatusFailed(d) /\ pass[d].calls[2].op = "create"
        /\ pass[d].err = StatusErr /\ queued[d]
        /\ remote[NameOf(d)] = Declared(d)
        /\ k8s[d].conditions = <<>> /\ ~k8s[d].finalizer

(* -------------------------------- C39 ---------------------------------- *)

\* C39: for the connector adapters create and update are the same upsert of
\* the backend. On every state of the backend, for every resource and every
\* outcome of the call, the two leave the same backend and return the same
\* error; so a create on a resource that appeared after the get does not
\* fail with already-exists but overwrites it, as the update would have.
C39_CreateIsUpdate ==
    /\ [](\A n \in Names : \A r \in Resources(n) : \A out \in Outcomes :
            CreateTeleportResource(remote, r, out) =
                UpdateTeleportResource(remote, r, out))
    /\ [][\A d \in Objects :
            (UpsertMutate(d, Outcomes) /\ remote[NameOf(d)] # NoResource
                /\ LastCall(pass'[d]).op = "create") =>
                    /\ LastCall(pass'[d]).err \in {NoErr, UnavailableErr}
                    /\ LastCall(pass'[d]).err = NoErr =>
                          remote'[NameOf(d)] =
                              StampOrigin(ToTeleport(NameOf(d), pass[d].obj))
                    /\ remote' =
                          UpdateTeleportResource(remote,
                              StampOrigin(ToTeleport(NameOf(d), pass[d].obj)),
                              IF LastCall(pass'[d]).err = NoErr
                              THEN "ok" ELSE "fail").store]_vars

\* a create has overwritten a resource that appeared in the backend after
\* the get of its pass
C39_Witness ==
    \E d \in Objects :
        /\ pass[d].pc = "persist" /\ FetchedNothing(pass[d].calls[1])
        /\ pass[d].calls[2].op = "create" /\ pass[d].calls[2].err = NoErr
        /\ pass[d].calls[2].saw.found
        /\ remote[NameOf(d)] = StampOrigin(ToTeleport(NameOf(d), pass[d].obj))

====
